---- MODULE Spec2Model ----
(***************************************************************************)
(* Job lifecycle of the freeconvert backend: the job API (start_job,       *)
(* get_job_status, delete_job), the Celery tool entry points               *)
(* (merge_pdf_task, compress_image_task, reduce_pdf_task, jpg_to_pdf_task) *)
(* and the retention sweep (cleanup_old_jobs), over a job table, an S3     *)
(* bucket and an at-least-once task queue.                                 *)
(*                                                                         *)
(* Every database statement and every S3 call of a tool entry point is one *)
(* step, so that two invocations for the same job, an owner delete and a   *)
(* sweep interleave as they can in the deployment.  An API handler is one  *)
(* step.                                                                   *)
(***************************************************************************)
EXTENDS Integers, Sequences, FiniteSets, Bags, TLC

(***************************************************************************)
(* Bounds of the model.                                                    *)
(***************************************************************************)
MaxJobs == 1           \* job rows start_job may create (uuid4 draws)
MaxFiles == 2          \* longest file_keys list a request carries
MaxRedeliveries == 1   \* re-deliveries of an already sent task message
MaxTicks == 1          \* clock advances
TickHours == 25        \* hours the clock advances at a time
NWorkers == 2          \* worker slots executing tasks concurrently
SweepJobs == 2         \* rows of the tables the sweep is run on (SpecSweep)
MaxListed == 52        \* rows of the largest table get_user_jobs is run on (SpecList)
MaxDocs == 3           \* files handed to an executor at a time (SpecTools)
MaxPages == 2          \* pages of an input document (SpecTools)

(***************************************************************************)
(* Program constants.                                                      *)
(***************************************************************************)
RetentionHours == 24
MinItems == 1
Limit == 50

None == "None"         \* NULL column / Python None
NoTime == -1           \* NULL completed_at

PENDING == "PENDING"
PROCESSING == "PROCESSING"
COMPLETED == "COMPLETED"
FAILED == "FAILED"
JobStatus == {PENDING, PROCESSING, COMPLETED, FAILED}

ToolType == {"merge", "compress", "reduce", "jpg-to-pdf"}
CompressionLevels == {"low", "medium", "high"}

Sessions == {"anonymous", "s1"}
\* The keys of the files clients have uploaded, in upload order.
Uploads == [n \in 1..MaxFiles |-> "uploads/" \o ToString(n)]
JobIds == 1..MaxJobs
Workers == 1..NWorkers

Range(s) == {s[i] : i \in 1..Len(s)}
InputKeys == Range(Uploads)

\* The file_keys lists a client sends: the first n uploaded keys.
KeyLists == {SubSeq(Uploads, 1, n) : n \in 0..MaxFiles}

\* The compression_level a request carries: the tools that take none leave the
\* field at its default.
LevelsFor(tool) ==
    IF tool \in {"compress", "reduce"} THEN CompressionLevels ELSE {"medium"}

VARIABLES
    jobs,          \* the jobs table: job id -> row
    nextId,        \* number of job ids drawn so far, plus one
    blobs,         \* keys of the objects in the bucket
    queue,         \* bag of task messages waiting for a worker
    sent,          \* bag of all messages send_task has accepted
    redelivered,   \* number of re-deliveries so far
    inv,           \* per worker slot, the running task invocation
    scratch,       \* per worker, number of temp files on its local disk
    now,           \* clock, in hours
    work,          \* an executor call: its input files and what it returned
    resp,          \* response of the latest API request
    touched,       \* job ids some worker has committed a write to
    clients        \* the clients: their cookie, the jobs each submitted, the latest requester

vars == <<jobs, nextId, blobs, queue, sent, redelivered, inv, scratch, now, work, resp,
         touched, clients>>

(***************************************************************************)
(* Pure helpers.                                                           *)
(***************************************************************************)
\* file_exists answering True for every key (fault injected for C8).
file_exists_unchecked(store, key, s3_ok) == TRUE

file_exists(store, key, s3_ok) == s3_ok /\ key \in store

TaskName(tool) ==
    CASE tool = "merge" -> "merge_pdf_task"
      [] tool = "compress" -> "compress_image_task"
      [] tool = "reduce" -> "reduce_pdf_task"
      [] tool = "jpg-to-pdf" -> "jpg_to_pdf_task"

\* A result key that leaves the job id out.
ResultKey_shared(task, job_id) ==
    "results/" \o
        (CASE task = "merge_pdf_task" -> "merged.pdf"
           [] task = "compress_image_task" -> "compressed_0.jpg"
           [] task = "reduce_pdf_task" -> "reduced.pdf"
           [] task = "jpg_to_pdf_task" -> "converted.pdf")

\* results/{job_id}/{name}: the key an entry point records as result_key.
ResultKey(task, job_id) ==
    "results/" \o ToString(job_id) \o "/" \o
        (CASE task = "merge_pdf_task" -> "merged.pdf"
           [] task = "compress_image_task" -> "compressed_0.jpg"
           [] task = "reduce_pdf_task" -> "reduced.pdf"
           [] task = "jpg_to_pdf_task" -> "converted.pdf")

\* results/{job_id}/compressed_{i}.jpg, i counted from 0.
CompressedKey(job_id, i) ==
    "results/" \o ToString(job_id) \o "/compressed_" \o ToString(i) \o ".jpg"

NoMsg == [task |-> None, job_id |-> 0, file_keys |-> <<>>, compression_level |-> None]
Idle == [pc |-> "idle", msg |-> NoMsg, seen |-> None, i |-> 0, err |-> None,
         temp_files |-> 0]

\* The clients of the API.  A client has no session_id cookie until it keeps
\* one a response has set.
Clients == {"A", "B"}
NoClients == [cookie |-> [c \in Clients |-> None], owner |-> <<>>, last |-> None]

NoResp == [op |-> "none", code |-> 0, job_id |-> 0, status |-> None, fresh |-> FALSE,
           items |-> <<>>, url |-> None]

\* What an executor returns: Success with the pages of the document it wrote
\* and the parameters of the save call, or Failure with the message of the
\* exception it raised.
NoSave == [format |-> None, quality_passed |-> FALSE, quality |-> 0, optimize |-> FALSE]

Failure(message) == [ok |-> FALSE, error |-> message, pages |-> <<>>, save |-> NoSave]

Success(pages, save) == [ok |-> TRUE, error |-> None, pages |-> pages, save |-> save]

NoOutput == Failure("not run")
NoWork == [task |-> None, input |-> <<>>, level |-> None, output |-> NoOutput]

\* A row created already PROCESSING (fault injected for C10).
NewJob_processing(session_id, tool, keys, level) ==
    [session_id |-> session_id, tool_type |-> tool, status |-> PROCESSING,
     input_files |-> keys, result_key |-> None, compression_level |-> level,
     error_message |-> None, created_at |-> now, completed_at |-> NoTime]

NewJob(session_id, tool, keys, level) ==
    [session_id |-> session_id, tool_type |-> tool, status |-> PENDING,
     input_files |-> keys, result_key |-> None, compression_level |-> level,
     error_message |-> None, created_at |-> now, completed_at |-> NoTime]

Remove(table, ids) == [k \in DOMAIN table \ ids |-> table[k]]

Init ==
    /\ jobs = <<>>
    /\ nextId = 1
    /\ blobs \in SUBSET InputKeys
    /\ queue = EmptyBag
    /\ sent = EmptyBag
    /\ redelivered = 0
    /\ inv = [w \in Workers |-> Idle]
    /\ scratch = [w \in Workers |-> 0]
    /\ work = NoWork
    /\ clients = NoClients
    /\ now = 0
    /\ resp = NoResp
    /\ touched = {}

(***************************************************************************)
(* Blob store (S3Client).  A call fails when S3 answers with an error      *)
(* (s3_ok = FALSE) or, for a read, when the object is absent.              *)
(***************************************************************************)
download_file(store, key, s3_ok) == s3_ok /\ key \in store

upload_file(store, key, s3_ok) == IF s3_ok THEN store \cup {key} ELSE store

delete_file(store, key, s3_ok) == IF s3_ok THEN store \ {key} ELSE store

\* delete_files: `deleted` are the keys of the batch S3 reports as Deleted.
delete_files(store, deleted) == store \ deleted

(***************************************************************************)
(* Tool executors (services/, and the conversion written inline in         *)
(* jpg_to_pdf_task).  A file is [valid, format, pages]: whether the        *)
(* library can open it, its format, and its pages, page <<k, p>> being the *)
(* p-th page of the k-th input (an image has one).                         *)
(***************************************************************************)
RECURSIVE Concat(_)
Concat(files) ==
    IF files = <<>> THEN <<>> ELSE Head(files).pages \o Concat(Tail(files))

\* MergeService.__init__: merger is a PdfMerger object, reader the PdfReader
\* class.
MergeService ==
    [merger |-> [kind |-> "instance", of |-> "PdfMerger"],
     reader |-> [kind |-> "class", of |-> "PdfReader"]]

\* obj.__name__ exists for a class, not for an instance of it.
HasName(obj) == obj.kind = "class"

\* MergeService.merge_pdfs.  Past the reading of the inputs it evaluates
\* self.merger.__name__, which raises AttributeError on a PdfMerger object;
\* the branch for the name 'PdfMerger' reads the variable PDF, which is bound
\* only by the loop of the other branch.  Every exception inside the try block
\* becomes ValueError("Failed to merge PDFs: ...").
merge_pdfs(pdf_data_list) ==
    IF pdf_data_list = <<>> THEN Failure("No PDF files provided for merging")
    ELSE IF \E i \in 1..Len(pdf_data_list) : ~pdf_data_list[i].valid
    THEN Failure("Failed to merge PDFs: Invalid PDF file")
    ELSE LET nonempty(f) == f.pages # <<>>
             pdf_files == SelectSeq(pdf_data_list, nonempty)
         IN  IF pdf_files = <<>>
             THEN Failure("Failed to merge PDFs: No valid PDF files could be processed")
             ELSE IF ~HasName(MergeService.merger)
             THEN Failure("Failed to merge PDFs: 'PdfMerger' object has no attribute '__name__'")
             ELSE IF MergeService.merger.of = "PdfMerger"
             THEN Failure("Failed to merge PDFs: local variable 'PDF' referenced before assignment")
             ELSE Success(Concat(pdf_files), [NoSave EXCEPT !.format = "PDF"])

\* The conversion of jpg_to_pdf_task: every input is opened, and the first
\* image alone is saved as a PDF.
jpg_to_pdf(files) ==
    IF \E i \in 1..Len(files) : ~files[i].valid
    THEN Failure("cannot identify image file")
    ELSE IF files = <<>> THEN Failure("No valid images found for conversion")
    ELSE Success(files[1].pages, [NoSave EXCEPT !.format = "PDF"])

\* ReduceService.reduce_pdf: every page of the input goes to the writer.
reduce_pdf(pdf_data, compression_level) ==
    IF ~pdf_data.valid THEN Failure("Failed to reduce PDF")
    ELSE Success(pdf_data.pages, [NoSave EXCEPT !.format = "PDF"])

\* The table with another quality for medium.
get_compression_settings_medium_80(level) ==
    CASE level = "low" -> <<95, TRUE>>
      [] level = "medium" -> <<80, TRUE>>
      [] level = "high" -> <<70, TRUE>>
      [] OTHER -> <<80, TRUE>>

\* CompressService._get_compression_settings: (quality, optimize).
get_compression_settings(level) ==
    CASE level = "low" -> <<95, TRUE>>
      [] level = "medium" -> <<85, TRUE>>
      [] level = "high" -> <<70, TRUE>>
      [] OTHER -> <<85, TRUE>>

\* CompressService.compress_image: a PNG is saved with optimize alone, any
\* other format (HEIC/HEIF after conversion to JPEG) with quality and
\* optimize=True.
compress_image(image_data, compression_level) ==
    IF ~image_data.valid THEN Failure("Failed to compress image")
    ELSE LET settings == get_compression_settings(compression_level)
             original_format == IF image_data.format \in {"HEIC", "HEIF"}
                                THEN "JPEG" ELSE image_data.format
         IN  IF original_format = "PNG"
             THEN Success(image_data.pages,
                          [format |-> "PNG", quality_passed |-> FALSE, quality |-> 0,
                           optimize |-> settings[2]])
             ELSE Success(image_data.pages,
                          [format |-> original_format, quality_passed |-> TRUE,
                           quality |-> settings[1], optimize |-> TRUE])

\* What the entry point `task` calls on the files it downloaded.
Executor(task, files, level) ==
    CASE task = "merge_pdf_task" -> merge_pdfs(files)
      [] task = "jpg_to_pdf_task" -> jpg_to_pdf(files)
      [] task = "reduce_pdf_task" -> reduce_pdf(files[1], level)
      [] task = "compress_image_task" -> compress_image(files[1], level)

\* n files the libraries can open, of the format the entry point works on.
ValidFiles(task, n) ==
    [k \in 1..n |->
        [valid |-> TRUE,
         format |-> IF task \in {"merge_pdf_task", "reduce_pdf_task"} THEN "PDF" ELSE "JPEG",
         pages |-> << <<k, 1>> >>]]

(***************************************************************************)
(* Job API (api/job.py).                                                   *)
(***************************************************************************)
TaskMessage(tool, job_id, keys, level) ==
    [task |-> TaskName(tool), job_id |-> job_id,
     file_keys |-> IF tool = "reduce" THEN <<keys[1]>> ELSE keys,
     compression_level |-> IF tool \in {"compress", "reduce"} THEN level ELSE None]

StartResp(code, job_id) == [NoResp EXCEPT !.op = "start", !.code = code, !.job_id = job_id]

\* The status code start_job answers with: 422 from the request model
\* (min_items), 404 for a key file_exists denies, 400 for a reduce request
\* with more than one key, 500 when send_task raises, else 200.
start_job_code(tool, keys, s3_ok, broker_ok) ==
    IF Len(keys) < MinItems THEN 422
    ELSE IF \E i \in 1..Len(keys) : ~file_exists(blobs, keys[i], s3_ok) THEN 404
    ELSE IF tool = "reduce" /\ Len(keys) # 1 THEN 400
    ELSE IF ~broker_ok THEN 500
    ELSE 200

\* The row is added and committed once the keys are validated; the checks of
\* the dispatch (400, 500) come after the commit.
start_job(session_id, tool, keys, level, s3_ok, broker_ok) ==
    LET job_id == nextId
        code == start_job_code(tool, keys, s3_ok, broker_ok)
        m == TaskMessage(tool, job_id, keys, level)
    IN
    /\ UNCHANGED <<blobs, redelivered, inv, scratch, now, work, touched>>
    /\ IF code \in {422, 404}
       THEN UNCHANGED <<jobs, nextId>>
       ELSE /\ nextId <= MaxJobs
            /\ jobs' = jobs @@ (job_id :> NewJob(session_id, tool, keys, level))
            /\ nextId' = nextId + 1
    /\ IF code = 200
       THEN /\ queue' = queue (+) SetToBag({m})
            /\ sent' = sent (+) SetToBag({m})
       ELSE UNCHANGED <<queue, sent>>

start_job_response(tool, keys, s3_ok, broker_ok) ==
    LET code == start_job_code(tool, keys, s3_ok, broker_ok) IN
    StartResp(code, IF code = 200 THEN nextId ELSE 0)

\* The other fields of a start_job request: all of them for a request that
\* passes the checks on file_keys, one representative for a request rejected
\* before any of them is read.
RequestFields(keys, s3_ok) ==
    LET all == UNION {[session_id : Sessions, tool : {t}, level : LevelsFor(t),
                       broker_ok : BOOLEAN] : t \in ToolType}
    IN  IF Len(keys) >= MinItems /\ \A i \in 1..Len(keys) : file_exists(blobs, keys[i], s3_ok)
        THEN all
        ELSE {CHOOSE f \in all : f.tool = "merge" /\ f.broker_ok}

\* get_job_status answering 200 whether or not the row exists.
get_job_status_response_always_found(job_id) ==
    [NoResp EXCEPT
        !.op = "status",
        !.code = 200,
        !.job_id = job_id,
        !.status = IF job_id \in DOMAIN jobs THEN jobs[job_id].status ELSE None,
        !.fresh = (resp = StartResp(200, job_id))]

\* get_job_status changes nothing; this is what it answers.  fresh: the
\* request follows the start_job response that returned this job id.
get_job_status_response(job_id) ==
    [NoResp EXCEPT
        !.op = "status",
        !.code = IF job_id \in DOMAIN jobs THEN 200 ELSE 404,
        !.job_id = job_id,
        !.status = IF job_id \in DOMAIN jobs THEN jobs[job_id].status ELSE None,
        !.fresh = (resp = StartResp(200, job_id))]

get_job_status(job_id) ==
    UNCHANGED <<jobs, nextId, blobs, queue, sent, redelivered, inv, scratch, now, work, touched>>

\* The rows of session_id, newest first, cut at Limit:
\* filter(Job.session_id == session_id).order_by(Job.created_at.desc()).limit(50).
\* Rows with equal created_at come in an order the database chooses: by
\* ascending or by descending id (ties).
RECURSIVE OrderByCreatedAtDesc(_, _, _, _)
OrderByCreatedAtDesc(table, ids, ties, limit) ==
    IF ids = {} \/ limit = 0 THEN <<>>
    ELSE LET first == CHOOSE j \in ids : \A k \in ids :
                          \/ table[j].created_at > table[k].created_at
                          \/ /\ table[j].created_at = table[k].created_at
                             /\ IF ties = "asc" THEN j <= k ELSE j >= k
         IN  <<first>> \o OrderByCreatedAtDesc(table, ids \ {first}, ties, limit - 1)

\* The listing with the oldest rows first.
UserJobs_oldest_first(table, session_id, ties) ==
    LET neg == [j \in DOMAIN table |-> [table[j] EXCEPT !.created_at = 0 - @]] IN
    OrderByCreatedAtDesc(neg, {j \in DOMAIN table : table[j].session_id = session_id},
                         ties, Limit)

UserJobs(table, session_id, ties) ==
    OrderByCreatedAtDesc(table, {j \in DOMAIN table : table[j].session_id = session_id},
                         ties, Limit)

get_user_jobs_response(session_id, ties) ==
    [NoResp EXCEPT !.op = "list", !.code = 200, !.items = UserJobs(jobs, session_id, ties)]

get_user_jobs(session_id) ==
    UNCHANGED <<jobs, nextId, blobs, queue, sent, redelivered, inv, scratch, now, work, touched>>

(* Download endpoint (api/download.py).  Values carry their Python type     *)
(* where the code depends on it: a str has no attribute .value and takes   *)
(* no str subscript.                                                       *)
Str(value) == [type |-> "str", value |-> value]

\* The status attribute of a loaded row: the column is a String.
LoadedStatus(row) == Str(row.status)

\* S3Client.generate_presigned_download_url returns the URL itself.
generate_presigned_download_url(file_key) == Str("https://bucket/" \o file_key)

HasValueAttribute(obj) == obj.type = "enum"
HasStrSubscript(obj) == obj.type = "dict"

DownloadResp(code, job_id, url) ==
    [NoResp EXCEPT !.op = "download", !.code = code, !.job_id = job_id, !.url = url]

\* get_download_url changes nothing; this is what it answers.  s3_ok: the
\* URL can be signed.  An exception that is not an HTTPException leaves the
\* handler and is answered with 500.
get_download_url_response(job_id, s3_ok) ==
    IF job_id \notin DOMAIN jobs
    THEN DownloadResp(404, job_id, None)
    ELSE LET job == jobs[job_id] IN
         IF job.status # COMPLETED
         THEN \* the detail of the 400 is built from job.status.value
              IF HasValueAttribute(LoadedStatus(job))
              THEN DownloadResp(400, job_id, None)
              ELSE DownloadResp(500, job_id, None)
         ELSE IF job.result_key = None
         THEN DownloadResp(404, job_id, None)
         ELSE IF ~s3_ok
         THEN DownloadResp(500, job_id, None)
         ELSE LET download_data == generate_presigned_download_url(job.result_key) IN
              \* download_data["download_url"]
              IF HasStrSubscript(download_data)
              THEN DownloadResp(200, job_id, download_data.value)
              ELSE DownloadResp(500, job_id, None)

get_download_url(job_id) ==
    UNCHANGED <<jobs, nextId, blobs, queue, sent, redelivered, inv, scratch, now, work, touched>>

DeleteResp(code) == [NoResp EXCEPT !.op = "delete", !.code = code]

\* delete_job without the comparison of the session cookie.
delete_job_code_any_session(job_id, session_id) ==
    IF job_id \notin DOMAIN jobs THEN 404 ELSE 200

delete_job_code(job_id, session_id) ==
    IF job_id \notin DOMAIN jobs THEN 404
    ELSE IF jobs[job_id].session_id # session_id THEN 403
    ELSE 200

\* delete_job giving up when the result blob cannot be deleted.
delete_job_propagating(job_id, session_id, s3_ok) ==
    /\ UNCHANGED <<nextId, queue, sent, redelivered, inv, scratch, now, work, touched>>
    /\ IF delete_job_code(job_id, session_id) # 200
       THEN UNCHANGED <<jobs, blobs>>
       ELSE IF jobs[job_id].result_key # None /\ ~s3_ok
       THEN UNCHANGED <<jobs, blobs>>
       ELSE /\ blobs' = blobs \ {jobs[job_id].result_key}
            /\ jobs' = Remove(jobs, {job_id})

\* The result blob is deleted with delete_file, which returns False on any
\* error; the row is deleted whatever it returned.
delete_job(job_id, session_id, s3_ok) ==
    /\ UNCHANGED <<nextId, queue, sent, redelivered, inv, scratch, now, work, touched>>
    /\ IF delete_job_code(job_id, session_id) # 200
       THEN UNCHANGED <<jobs, blobs>>
       ELSE /\ blobs' = IF jobs[job_id].result_key # None
                        THEN delete_file(blobs, jobs[job_id].result_key, s3_ok)
                        ELSE blobs
            /\ jobs' = Remove(jobs, {job_id})

delete_job_response(job_id, session_id) == DeleteResp(delete_job_code(job_id, session_id))

(***************************************************************************)
(* Task queue (Celery, task_acks_late): send_task puts a message on the    *)
(* queue; a message is delivered to a free worker slot, and may be         *)
(* delivered again (at-least-once).                                        *)
(***************************************************************************)
FreeSlot(w) == inv[w].pc = "idle" /\ \A v \in Workers : v < w => inv[v].pc # "idle"

Deliver(m) ==
    /\ BagIn(m, queue)
    /\ \E w \in Workers :
          /\ FreeSlot(w)
          /\ inv' = [inv EXCEPT ![w] = [Idle EXCEPT !.pc = "load", !.msg = m]]
    /\ queue' = queue (-) SetToBag({m})
    /\ UNCHANGED <<jobs, nextId, blobs, sent, redelivered, scratch, now, work, clients, resp, touched>>

Redeliver(m) ==
    /\ BagIn(m, sent)
    /\ redelivered < MaxRedeliveries
    /\ redelivered' = redelivered + 1
    /\ queue' = queue (+) SetToBag({m})
    /\ UNCHANGED <<jobs, nextId, blobs, sent, inv, scratch, now, work, clients, resp, touched>>

(***************************************************************************)
(* Tool entry points (workers/tasks.py).  The four entry points have the   *)
(* same shape; inv[w].msg.task tells them apart where they differ.         *)
(***************************************************************************)
\* finally: _cleanup_temp_files(temp_files) unlinks the files the entry point
\* has in temp_files; the invocation ends.
Return(w) ==
    /\ inv' = [inv EXCEPT ![w] = Idle]
    /\ scratch' = [scratch EXCEPT ![w] = @ - inv[w].temp_files]

Goto(w, pc) ==
    /\ inv' = [inv EXCEPT ![w].pc = pc]
    /\ UNCHANGED scratch

Raise(w, message) ==
    /\ inv' = [inv EXCEPT ![w].pc = "fail", ![w].err = message]
    /\ UNCHANGED scratch

\* The PROCESSING write storing the default level of the entry points.
SetProcessingRow_default_level(row, task, level) ==
    IF task \in {"compress_image_task", "reduce_pdf_task"}
    THEN [row EXCEPT !.status = PROCESSING, !.compression_level = "medium"]
    ELSE [row EXCEPT !.status = PROCESSING]

\* The row as the UPDATE of "status = PROCESSING" leaves it.
SetProcessingRow(row, task, level) ==
    IF task \in {"compress_image_task", "reduce_pdf_task"}
    THEN [row EXCEPT !.status = PROCESSING, !.compression_level = level]
    ELSE [row EXCEPT !.status = PROCESSING]

\* The success write leaving status out.
CompletedRow_status_unwritten(row, result_key, at) ==
    [row EXCEPT !.result_key = result_key, !.completed_at = at, !.error_message = None]

\* The row as the success write leaves it.
CompletedRow(row, result_key, at) ==
    [row EXCEPT !.status = COMPLETED, !.result_key = result_key,
                !.completed_at = at, !.error_message = None]

\* The except block recording no message.
FailedRow_no_message(row, message, at) ==
    [row EXCEPT !.status = FAILED, !.completed_at = at]

\* The row as the write of the except block leaves it.
FailedRow(row, message, at) ==
    [row EXCEPT !.status = FAILED, !.error_message = message, !.completed_at = at]

\* The entry point going on without testing the row it loaded.
Load_without_check(w) ==
    LET job_id == inv[w].msg.job_id IN
    /\ inv[w].pc = "load"
    /\ inv' = [inv EXCEPT ![w].pc = "setproc",
                           ![w].seen = IF job_id \in DOMAIN jobs
                                       THEN jobs[job_id].status ELSE PROCESSING]
    /\ UNCHANGED scratch
    /\ UNCHANGED <<jobs, nextId, blobs, queue, sent, redelivered, now, work, clients, resp, touched>>

\* job = db.query(Job).filter(Job.id == job_id).first(); if not job: raise
Load(w) ==
    LET job_id == inv[w].msg.job_id IN
    /\ inv[w].pc = "load"
    /\ IF job_id \in DOMAIN jobs
       THEN /\ inv' = [inv EXCEPT ![w].pc = "setproc", ![w].seen = jobs[job_id].status]
            /\ UNCHANGED scratch
       ELSE \* job is None: the except block's write raises too and is rolled back
            Return(w)
    /\ UNCHANGED <<jobs, nextId, blobs, queue, sent, redelivered, now, work, clients, resp, touched>>

\* job.status = PROCESSING; db.commit().  The session flushes an UPDATE only
\* for an attribute whose value differs from the loaded one; an UPDATE that
\* matches no row raises StaleDataError, and so does the except block's.
SetProcessing(w) ==
    LET m == inv[w].msg IN
    /\ inv[w].pc = "setproc"
    /\ IF inv[w].seen = PROCESSING
       THEN /\ inv' = [inv EXCEPT ![w].pc = "download", ![w].i = 1]
            /\ UNCHANGED <<jobs, touched, scratch>>
       ELSE IF m.job_id \in DOMAIN jobs
       THEN /\ jobs' = [jobs EXCEPT ![m.job_id] =
                            SetProcessingRow(@, m.task, m.compression_level)]
            /\ touched' = touched \cup {m.job_id}
            /\ inv' = [inv EXCEPT ![w].pc = "download", ![w].i = 1]
            /\ UNCHANGED scratch
       ELSE /\ Return(w)
            /\ UNCHANGED <<jobs, touched>>
    /\ UNCHANGED <<nextId, blobs, queue, sent, redelivered, now, work, clients, resp>>

\* One round of the loop of _download_files_to_temp: a temp file is created
\* for the key, then the key is downloaded.  On success the path is appended
\* to temp_files; on failure the paths in temp_files are unlinked (the path
\* just created is not among them), ValueError is raised and the entry
\* point's own temp_files stays empty.
Download(w) ==
    LET m == inv[w].msg
        i == inv[w].i
    IN
    /\ inv[w].pc = "download"
    /\ \E s3_ok \in BOOLEAN :
          IF download_file(blobs, m.file_keys[i], s3_ok)
          THEN /\ inv' = [inv EXCEPT ![w].i = IF i < Len(m.file_keys) THEN i + 1 ELSE 1,
                                     ![w].pc = IF i < Len(m.file_keys)
                                               THEN "download" ELSE "process",
                                     ![w].temp_files = @ + 1]
               /\ scratch' = [scratch EXCEPT ![w] = @ + 1]
          ELSE /\ inv' = [inv EXCEPT ![w].pc = "fail",
                                     ![w].err = "Failed to download file",
                                     ![w].temp_files = 0]
               /\ scratch' = [scratch EXCEPT ![w] = @ + 1 - inv[w].temp_files]
    /\ UNCHANGED <<jobs, nextId, blobs, queue, sent, redelivered, now, work, clients, resp, touched>>

\* merge, reduce, jpg-to-pdf: run the executor, upload the one result.  The
\* executor raises on files it cannot open; on files it can open it returns
\* what Executor says.
Process(w) ==
    LET m == inv[w].msg IN
    /\ inv[w].pc = "process"
    /\ m.task # "compress_image_task"
    /\ \/ \* the executor raises
          /\ Raise(w, "processing failed")
          /\ UNCHANGED blobs
       \/ \E s3_ok \in BOOLEAN :
          /\ Executor(m.task, ValidFiles(m.task, Len(m.file_keys)), m.compression_level).ok
          /\ blobs' = upload_file(blobs, ResultKey(m.task, m.job_id), s3_ok)
          /\ IF s3_ok THEN Goto(w, "complete") ELSE Raise(w, "Failed to upload file")
    /\ UNCHANGED <<jobs, nextId, queue, sent, redelivered, now, work, clients, resp, touched>>

\* compress: one round of the loop that compresses and uploads each input;
\* the value upload_file returns is not read.
Compress(w) ==
    LET m == inv[w].msg
        i == inv[w].i
    IN
    /\ inv[w].pc = "process"
    /\ m.task = "compress_image_task"
    /\ \/ \* compress_image raises
          /\ Raise(w, "processing failed")
          /\ UNCHANGED blobs
       \/ \E s3_ok \in BOOLEAN :
          /\ blobs' = upload_file(blobs, CompressedKey(m.job_id, i - 1), s3_ok)
          /\ inv' = [inv EXCEPT ![w].i = IF i < Len(m.file_keys) THEN i + 1 ELSE 1,
                                 ![w].pc = IF i < Len(m.file_keys)
                                           THEN "process" ELSE "complete"]
          /\ UNCHANGED scratch
    /\ UNCHANGED <<jobs, nextId, queue, sent, redelivered, now, work, clients, resp, touched>>

\* The success write inserting the row when the UPDATE matches none.
Complete_upsert(w) ==
    LET m == inv[w].msg
        tool == CHOOSE t \in ToolType : TaskName(t) = m.task
        row == IF m.job_id \in DOMAIN jobs
               THEN jobs[m.job_id]
               ELSE NewJob("anonymous", tool, m.file_keys, m.compression_level)
    IN
    /\ inv[w].pc = "complete"
    /\ jobs' = (m.job_id :> CompletedRow(row, ResultKey(m.task, m.job_id), now)) @@ jobs
    /\ touched' = touched \cup {m.job_id}
    /\ Goto(w, "cleanup")
    /\ UNCHANGED <<nextId, blobs, queue, sent, redelivered, now, work, clients, resp>>

\* The success write and its commit.
Complete(w) ==
    LET m == inv[w].msg IN
    /\ inv[w].pc = "complete"
    /\ IF m.job_id \in DOMAIN jobs
       THEN /\ jobs' = [jobs EXCEPT ![m.job_id] =
                            CompletedRow(@, ResultKey(m.task, m.job_id), now)]
            /\ touched' = touched \cup {m.job_id}
            /\ Goto(w, "cleanup")
       ELSE \* StaleDataError, and again in the except block
            /\ Return(w)
            /\ UNCHANGED <<jobs, touched>>
    /\ UNCHANGED <<nextId, blobs, queue, sent, redelivered, now, work, clients, resp>>

\* Deletion of the input blobs: delete_file for reduce (it returns False on
\* any error), delete_files for the others (it catches ClientError only).
CleanupInputs(w) ==
    LET m == inv[w].msg IN
    /\ inv[w].pc = "cleanup"
    /\ IF m.task = "reduce_pdf_task"
       THEN \E s3_ok \in BOOLEAN :
              /\ blobs' = delete_file(blobs, m.file_keys[1], s3_ok)
              /\ Return(w)
       ELSE \/ \E deleted \in SUBSET Range(m.file_keys) :
                /\ blobs' = delete_files(blobs, deleted)
                /\ Return(w)
            \/ \* delete_objects raises something other than ClientError
               /\ Raise(w, "delete_objects failed")
               /\ UNCHANGED blobs
    /\ UNCHANGED <<jobs, nextId, queue, sent, redelivered, now, work, clients, resp, touched>>

\* The except block: write FAILED, commit (rolled back if that raises), return.
FailWrite(w) ==
    LET m == inv[w].msg IN
    /\ inv[w].pc = "fail"
    /\ IF m.job_id \in DOMAIN jobs
       THEN /\ jobs' = [jobs EXCEPT ![m.job_id] = FailedRow(@, inv[w].err, now)]
            /\ touched' = touched \cup {m.job_id}
       ELSE UNCHANGED <<jobs, touched>>
    /\ Return(w)
    /\ UNCHANGED <<nextId, blobs, queue, sent, redelivered, now, work, clients, resp>>

(***************************************************************************)
(* Retention sweep.                                                        *)
(***************************************************************************)
\* The query selecting every finished job, whatever its age.
OldJobs_any_age(table, cutoff_time) ==
    {j \in DOMAIN table : table[j].completed_at # NoTime}

\* db.query(Job).filter(Job.completed_at < cutoff_time): a NULL completed_at
\* satisfies no comparison.
OldJobs(table, cutoff_time) ==
    {j \in DOMAIN table :
        table[j].completed_at # NoTime /\ table[j].completed_at < cutoff_time}

\* `failing`: the old jobs whose result blob S3 fails to delete.
cleanup_old_jobs(failing) ==
    LET old_jobs == OldJobs(jobs, now - RetentionHours)
        cleaned == {jobs[j].result_key :
                       j \in {k \in old_jobs \ failing : jobs[k].result_key # None}}
    IN
    /\ old_jobs # {}
    /\ failing \subseteq old_jobs
    /\ blobs' = blobs \ cleaned
    /\ jobs' = Remove(jobs, old_jobs)
    /\ UNCHANGED <<nextId, queue, sent, redelivered, inv, scratch, now, work, clients, resp, touched>>

Tick ==
    /\ now < MaxTicks * TickHours
    /\ now' = now + TickHours
    /\ UNCHANGED <<jobs, nextId, blobs, queue, sent, redelivered, inv, scratch, work, clients, resp, touched>>

(***************************************************************************)
(* Spec: the job table, the bucket, the queue with re-delivery, the        *)
(* workers and the sweep; the responses of the API are not recorded.       *)
(* SpecApi: the same system without re-delivery, with the response of each *)
(* API request recorded in resp.                                           *)
(***************************************************************************)
StartJob(reply) ==
    \E keys \in KeyLists, s3_ok \in BOOLEAN :
       \E f \in RequestFields(keys, s3_ok) :
          /\ start_job(f.session_id, f.tool, keys, f.level, s3_ok, f.broker_ok)
          /\ resp' = IF reply
                     THEN start_job_response(f.tool, keys, s3_ok, f.broker_ok)
                     ELSE resp
          /\ UNCHANGED clients

GetJobStatus ==
    \E job_id \in JobIds :
       /\ get_job_status(job_id)
       /\ resp' = get_job_status_response(job_id)
       /\ UNCHANGED clients

GetDownloadUrl ==
    \E job_id \in JobIds, s3_ok \in BOOLEAN :
       /\ get_download_url(job_id)
       /\ resp' = get_download_url_response(job_id, s3_ok)
       /\ UNCHANGED clients

DeleteJob(reply) ==
    \E job_id \in JobIds, session_id \in Sessions, s3_ok \in BOOLEAN :
       /\ delete_job(job_id, session_id, s3_ok)
       /\ resp' = IF reply THEN delete_job_response(job_id, session_id) ELSE resp
       /\ UNCHANGED clients

WorkerStep ==
    \E w \in Workers :
       \/ Load(w)
       \/ SetProcessing(w)
       \/ Download(w)
       \/ Process(w)
       \/ Compress(w)
       \/ Complete(w)
       \/ CleanupInputs(w)
       \/ FailWrite(w)

Sweep == \E failing \in SUBSET DOMAIN jobs : cleanup_old_jobs(failing)

Next ==
    \/ StartJob(FALSE)
    \/ DeleteJob(FALSE)
    \/ \E m \in BagToSet(queue) : Deliver(m)
    \/ \E m \in BagToSet(sent) : Redeliver(m)
    \/ WorkerStep
    \/ Sweep
    \/ Tick

Spec == Init /\ [][Next]_vars

NextApi ==
    \/ StartJob(TRUE)
    \/ GetJobStatus
    \/ GetDownloadUrl
    \/ DeleteJob(TRUE)
    \/ \E m \in BagToSet(queue) : Deliver(m)
    \/ WorkerStep
    \/ Sweep
    \/ Tick

SpecApi == Init /\ [][NextApi]_vars

(***************************************************************************)
(* SpecSweep: the retention sweep and the clock over the job tables of     *)
(* SweepJobs rows the workers can leave behind: each row is a jpg-to-pdf   *)
(* job that is PENDING, PROCESSING, COMPLETED, FAILED, FAILED after its    *)
(* success write, or PROCESSING again after a terminal write, finished at  *)
(* one of SweepTimes; the bucket holds the result blob of every row that   *)
(* has a result_key.                                                       *)
(***************************************************************************)
SweepTimes == {0, 1} \cup {k * TickHours : k \in 0..MaxTicks}

SweepRows(job_id, at) ==
    LET base == [NewJob("s1", "jpg-to-pdf", <<Uploads[1]>>, "medium")
                    EXCEPT !.created_at = 0]
        result_key == ResultKey("jpg_to_pdf_task", job_id)
        done(t) == CompletedRow(SetProcessingRow(base, "jpg_to_pdf_task", "medium"),
                                result_key, t)
        failed(t) == FailedRow(SetProcessingRow(base, "jpg_to_pdf_task", "medium"),
                               "Failed to download file", t)
    IN  {base, SetProcessingRow(base, "jpg_to_pdf_task", "medium")}
        \cup UNION {{done(t), failed(t), FailedRow(done(t), "delete_objects failed", t),
                     SetProcessingRow(done(t), "jpg_to_pdf_task", "medium")}
                       : t \in {u \in SweepTimes : u <= at}}

InitSweep ==
    /\ now \in {k * TickHours : k \in 0..MaxTicks}
    /\ \E n \in 0..SweepJobs :
          /\ jobs \in {f \in [1..n -> UNION {SweepRows(j, now) : j \in 1..n}] :
                          \A j \in 1..n : f[j] \in SweepRows(j, now)}
          /\ nextId = n + 1
          /\ sent = SetToBag({TaskMessage("jpg-to-pdf", j, <<Uploads[1]>>, "medium")
                                  : j \in 1..n})
    /\ blobs = {jobs[j].result_key : j \in {k \in DOMAIN jobs : jobs[k].result_key # None}}
    /\ queue = EmptyBag
    /\ redelivered = 0
    /\ inv = [w \in Workers |-> Idle]
    /\ scratch = [w \in Workers |-> 0]
    /\ work = NoWork
    /\ clients = NoClients
    /\ resp = NoResp
    /\ touched = {j \in DOMAIN jobs : jobs[j].status # PENDING}

NextSweep ==
    \/ Sweep
    \/ Tick

SpecSweep == InitSweep /\ [][NextSweep]_vars

(***************************************************************************)
(* SpecList: get_user_jobs over tables of up to MaxListed PENDING rows,    *)
(* few or around Limit of them, owned by one session or shared between     *)
(* two, created in id order, in reverse id order or in an order with       *)
(* equal created_at.                                                       *)
(***************************************************************************)
ListSizes == {n \in 0..MaxListed : n <= 3 \/ n >= Limit - 1}

\* Every Stride-th row belongs to session s1, the others to anonymous.
Strides == {0, 3, 40}
OwnerOf(k, stride) == IF stride > 0 /\ k % stride = 0 THEN "s1" ELSE "anonymous"

CreationOrders == {"asc", "desc", "mixed"}
CreatedAt(k, n, order) ==
    CASE order = "asc" -> k
      [] order = "desc" -> n - k
      [] order = "mixed" -> (k * 7) % 13

InitList ==
    /\ now = MaxListed
    /\ \E n \in ListSizes, stride \in Strides, order \in CreationOrders :
          /\ jobs = [k \in 1..n |->
                       [NewJob(OwnerOf(k, stride), "merge", <<Uploads[1]>>, "medium")
                           EXCEPT !.created_at = CreatedAt(k, n, order)]]
          /\ nextId = n + 1
    /\ blobs = InputKeys
    /\ queue = EmptyBag
    /\ sent = EmptyBag
    /\ redelivered = 0
    /\ inv = [w \in Workers |-> Idle]
    /\ scratch = [w \in Workers |-> 0]
    /\ work = NoWork
    /\ clients = NoClients
    /\ resp = NoResp
    /\ touched = {}

GetUserJobs ==
    \E session_id \in Sessions, ties \in {"asc", "desc"} :
       /\ get_user_jobs(session_id)
       /\ resp' = get_user_jobs_response(session_id, ties)
       /\ UNCHANGED clients

NextList == GetUserJobs

SpecList == InitList /\ [][NextList]_vars

(***************************************************************************)
(* SpecTools: one call of an executor on up to MaxDocs input files, each   *)
(* of which the library can or cannot open: documents of up to MaxPages    *)
(* pages for merge and reduce, images of every supported format for        *)
(* compress and jpg-to-pdf.                                                *)
(***************************************************************************)
ImageFormats == {"JPEG", "PNG", "WEBP", "HEIC"}

PdfFiles(k) ==
    {[valid |-> TRUE, format |-> "PDF", pages |-> [p \in 1..n |-> <<k, p>>]]
        : n \in 0..MaxPages}
    \cup {[valid |-> FALSE, format |-> "PDF", pages |-> <<>>]}

ImageFiles(k) ==
    {[valid |-> v, format |-> f, pages |-> << <<k, 1>> >>]
        : v \in BOOLEAN, f \in ImageFormats}

FilesFor(task, k) ==
    IF task \in {"merge_pdf_task", "reduce_pdf_task"} THEN PdfFiles(k) ELSE ImageFiles(k)

\* The lists of n files an entry point can hand to its executor.
RECURSIVE FileLists(_, _)
FileLists(task, n) ==
    IF n = 0 THEN {<<>>}
    ELSE {Append(files, f) : files \in FileLists(task, n - 1), f \in FilesFor(task, n)}

\* merge_pdfs and the conversion take the whole list (merge_pdfs also the
\* empty one), reduce_pdf and compress_image one file at a time.
Calls ==
    UNION {[task : {t}, input : FileLists(t, n), level : LevelsFor(t), output : {NoOutput}]
              : t \in {"merge_pdf_task", "jpg_to_pdf_task"}, n \in 0..MaxDocs}
    \cup UNION {[task : {TaskName(t)}, input : FileLists(TaskName(t), 1),
                 level : LevelsFor(t), output : {NoOutput}]
                    : t \in {"reduce", "compress"}}

InitTools ==
    /\ work \in Calls
    /\ clients = NoClients
    /\ jobs = <<>>
    /\ nextId = 1
    /\ blobs = InputKeys
    /\ queue = EmptyBag
    /\ sent = EmptyBag
    /\ redelivered = 0
    /\ inv = [w \in Workers |-> Idle]
    /\ scratch = [w \in Workers |-> 0]
    /\ now = 0
    /\ resp = NoResp
    /\ touched = {}

RunExecutor ==
    /\ work.task # None
    /\ work.output = NoOutput
    /\ work' = [work EXCEPT !.output = Executor(work.task, work.input, work.level)]
    /\ UNCHANGED <<jobs, nextId, blobs, queue, sent, redelivered, inv, scratch, now, resp,
                   touched, clients>>

NextTools == RunExecutor

SpecTools == InitTools /\ [][NextTools]_vars

(***************************************************************************)
(* SpecLive: the system as it runs on: the broker delivers every queued    *)
(* message, a worker goes on with the invocation it runs unless the hard   *)
(* time limit kills it, the beat scheduler runs both periodic tasks and    *)
(* the clock advances.  Clients are under no obligation to send requests.  *)
(***************************************************************************)
\* task_time_limit: the pool kills the process running the invocation.  No
\* except or finally block runs; the message is not delivered again.
Kill(w) ==
    /\ inv[w].pc # "idle"
    /\ inv' = [inv EXCEPT ![w] = Idle]
    /\ UNCHANGED <<jobs, nextId, blobs, queue, sent, redelivered, scratch, now, work, clients, resp,
                   touched>>

StartsWith(key, prefix) ==
    Len(key) >= Len(prefix) /\ SubSeq(key, 1, Len(prefix)) = prefix

\* The purge lists the keys under "temp/".  For a key it lists, the
\* comparison of LastModified (timezone-aware) with utcnow() (naive) raises
\* TypeError, which the task catches: files_to_delete is never sent.
cleanup_s3_temp_files ==
    LET temp_files == {key \in blobs : StartsWith(key, "temp/")}
        files_to_delete == {}
    IN
    /\ blobs' = IF temp_files = {} THEN blobs ELSE blobs \ files_to_delete
    /\ UNCHANGED <<jobs, nextId, queue, sent, redelivered, inv, scratch, now, work, clients, resp,
                   touched>>

Invocation(w) ==
    \/ Load(w)
    \/ SetProcessing(w)
    \/ Download(w)
    \/ Process(w)
    \/ Compress(w)
    \/ Complete(w)
    \/ CleanupInputs(w)
    \/ FailWrite(w)

NextLive ==
    \/ StartJob(FALSE)
    \/ DeleteJob(FALSE)
    \/ \E m \in BagToSet(queue) : Deliver(m)
    \/ \E w \in Workers : Invocation(w)
    \/ \E w \in Workers : Kill(w)
    \/ Sweep
    \/ cleanup_s3_temp_files
    \/ Tick

Fairness ==
    /\ WF_vars(\E m \in BagToSet(queue) : Deliver(m))
    /\ \A w \in Workers : WF_vars(Invocation(w))
    /\ WF_vars(Sweep)
    /\ WF_vars(cleanup_s3_temp_files)
    /\ WF_vars(Tick)

SpecLive == Init /\ [][NextLive]_vars /\ Fairness

(***************************************************************************)
(* SpecFair: SpecLive with no forced termination: every invocation runs to *)
(* its return, and every message is delivered once.                        *)
(***************************************************************************)
NextFair ==
    \/ StartJob(FALSE)
    \/ DeleteJob(FALSE)
    \/ \E m \in BagToSet(queue) : Deliver(m)
    \/ \E w \in Workers : Invocation(w)
    \/ Sweep
    \/ cleanup_s3_temp_files
    \/ Tick

SpecFair == Init /\ [][NextFair]_vars /\ Fairness

(***************************************************************************)
(* SpecClients: the clients and their session cookies.  A request carries  *)
(* the cookie its client holds; the handlers read the session id from the  *)
(* request, the middleware sets the cookie on the response, and a client   *)
(* keeps it or not.                                                        *)
(***************************************************************************)
\* The uuid4 the middleware draws for a request of client c without cookie.
NewSession(c) == "sid-" \o c

\* http_request.cookies.get("session_id", "anonymous")
session_of(cookie) == IF cookie = None THEN "anonymous" ELSE cookie

\* ensure_session_id: the cookie the response sets.
ensure_session_id(c, cookie) == IF cookie = None THEN NewSession(c) ELSE cookie

\* The cookie client c holds after the response; keeps: it stores cookies.
CookieAfter(c, keeps) ==
    IF keeps THEN ensure_session_id(c, clients.cookie[c]) ELSE clients.cookie[c]

ClientStartJob(c) ==
    \E keys \in KeyLists, s3_ok \in BOOLEAN, keeps \in BOOLEAN :
       \E f \in RequestFields(keys, s3_ok) :
          LET session_id == session_of(clients.cookie[c])
              created == start_job_code(f.tool, keys, s3_ok, f.broker_ok) \notin {422, 404}
          IN
          /\ f.session_id = "anonymous"
          /\ start_job(session_id, f.tool, keys, f.level, s3_ok, f.broker_ok)
          /\ resp' = start_job_response(f.tool, keys, s3_ok, f.broker_ok)
          /\ clients' = [cookie |-> [clients.cookie EXCEPT ![c] = CookieAfter(c, keeps)],
                         owner |-> IF created
                                   THEN clients.owner @@ (nextId :> c)
                                   ELSE clients.owner,
                         last |-> c]

ClientDeleteJob(c) ==
    \E job_id \in JobIds, s3_ok \in BOOLEAN, keeps \in BOOLEAN :
       LET session_id == session_of(clients.cookie[c]) IN
       /\ delete_job(job_id, session_id, s3_ok)
       /\ resp' = delete_job_response(job_id, session_id)
       /\ clients' = [clients EXCEPT !.cookie[c] = CookieAfter(c, keeps), !.last = c]

NextClients ==
    \/ \E c \in Clients : ClientStartJob(c)
    \/ \E c \in Clients : ClientDeleteJob(c)

SpecClients == Init /\ [][NextClients]_vars

(***************************************************************************)
(* Properties.                                                             *)
(***************************************************************************)
Terminal == {COMPLETED, FAILED}

\* The invocation in slot w takes the step.
StepOf(w) == inv[w].pc # "idle" /\ inv'[w] # inv[w]

\* Number of send_task calls made for job_id.
RECURSIVE SumCopies(_, _)
SumCopies(bag, ms) ==
    IF ms = {} THEN 0
    ELSE LET m == CHOOSE x \in ms : TRUE
         IN  CopiesIn(m, bag) + SumCopies(bag, ms \ {m})
Enqueues(job_id) == SumCopies(sent, {m \in BagToSet(sent) : m.job_id = job_id})

AllFields ==
    UNION {[session_id : Sessions, tool : {t}, level : LevelsFor(t),
            broker_ok : BOOLEAN] : t \in ToolType}

\* C1: an entry point invoked again for a job it finds COMPLETED leaves the
\* job's result_key unchanged and its status COMPLETED, at every step of that
\* invocation.
C1_RedeliveryKeepsCompleted ==
    [][\A w \in Workers :
          LET job_id == inv[w].msg.job_id IN
          (/\ StepOf(w)
           /\ inv[w].seen = COMPLETED
           /\ job_id \in DOMAIN jobs
           /\ job_id \in DOMAIN jobs')
          => /\ jobs'[job_id].status = COMPLETED
             /\ jobs'[job_id].result_key = jobs[job_id].result_key]_vars

\* C2: in every reachable state a job's result_key is set if and only if its
\* status is COMPLETED.
C2_ResultKeyIffCompleted ==
    \A j \in DOMAIN jobs : (jobs[j].result_key # None) <=> (jobs[j].status = COMPLETED)

\* C3: in every reachable state a job's error_message is set if and only if
\* its status is FAILED.
C3_ErrorMessageIffFailed ==
    \A j \in DOMAIN jobs : (jobs[j].error_message # None) <=> (jobs[j].status = FAILED)

\* C4: in every reachable state a job's completed_at is set if and only if its
\* status is COMPLETED or FAILED.
C4_CompletedAtIffTerminal ==
    \A j \in DOMAIN jobs : (jobs[j].completed_at # NoTime) <=> (jobs[j].status \in Terminal)

\* C5: when two invocations for the same job run concurrently, the record an
\* invocation leaves terminal has exactly one of result_key and error_message
\* set.  Checked on the steps an invocation takes while another invocation for
\* the same job is in progress; a failure raised by the invocation's own
\* input cleanup is left aside, so that a violation is one of the interleaving.
C5_ConcurrentTerminalConsistent ==
    [][\A w \in Workers :
          LET job_id == inv[w].msg.job_id IN
          (/\ StepOf(w)
           /\ inv[w].err # "delete_objects failed"
           /\ \E v \in Workers \ {w} :
                 inv[v].pc # "idle" /\ inv[v].msg.job_id = job_id
           /\ job_id \in DOMAIN jobs'
           /\ jobs'[job_id].status \in Terminal)
          => ((jobs'[job_id].result_key # None) # (jobs'[job_id].error_message # None))]_vars

\* C6: a job's status changes only along PENDING->PROCESSING,
\* PROCESSING->COMPLETED and PROCESSING->FAILED (PROCESSING->PROCESSING being
\* no change); COMPLETED and FAILED are never left.
StatusEdges ==
    {<<PENDING, PROCESSING>>, <<PROCESSING, PROCESSING>>,
     <<PROCESSING, COMPLETED>>, <<PROCESSING, FAILED>>}

C6_StatusEdges ==
    [][\A j \in DOMAIN jobs \cap DOMAIN jobs' :
          \/ jobs'[j].status = jobs[j].status
          \/ <<jobs[j].status, jobs'[j].status>> \in StatusEdges]_vars

\* C7: a start_job request for tool reduce whose file_keys has a length other
\* than 1 fails and leaves no Job row and no task enqueued; a reduce request
\* with exactly one existing key succeeds with one row and one
\* reduce_pdf_task message.
C7_ReduceCardinality ==
    [][\A keys \in KeyLists, s3_ok \in BOOLEAN, f \in AllFields :
          (/\ f.tool = "reduce"
           /\ start_job(f.session_id, f.tool, keys, f.level, s3_ok, f.broker_ok)
           /\ resp' = start_job_response(f.tool, keys, s3_ok, f.broker_ok))
          => IF Len(keys) # 1
             THEN resp'.code # 200 /\ jobs' = jobs /\ queue' = queue /\ sent' = sent
             ELSE (s3_ok /\ f.broker_ok /\ keys[1] \in blobs)
                  => /\ resp'.code = 200
                     /\ DOMAIN jobs' = DOMAIN jobs \cup {nextId}
                     /\ queue' = queue (+) SetToBag({TaskMessage("reduce", nextId, keys, f.level)})]_vars

\* C8: a start_job request with a file key that is not in the bucket fails,
\* creates no Job row and enqueues no task.
C8_MissingKeyRejected ==
    [][resp'.op = "start" =>
        \A keys \in KeyLists :
           (\E i \in 1..Len(keys) : keys[i] \notin blobs) =>
              \A s3_ok \in BOOLEAN, f \in AllFields :
                 (/\ resp' = start_job_response(f.tool, keys, s3_ok, f.broker_ok)
                  /\ start_job(f.session_id, f.tool, keys, f.level, s3_ok, f.broker_ok))
                 => /\ resp'.code \in {404, 422, 500}
                    /\ jobs' = jobs
                    /\ queue' = queue
                    /\ sent' = sent]_vars

\* A start_job request naming a key that is not in the bucket was answered 404
\* and there is no row and no message.
C8_Witness ==
    /\ resp = StartResp(404, 0)
    /\ \E k \in InputKeys : k \notin blobs
    /\ jobs = <<>>
    /\ sent = EmptyBag

\* C9: every Job row start_job persists has exactly one task enqueued for it,
\* addressed to the entry point of its tool_type.
C9_OneEnqueuePerJob ==
    \A j \in DOMAIN jobs :
       /\ Enqueues(j) = 1
       /\ \A m \in BagToSet(sent) : m.job_id = j => m.task = TaskName(jobs[j].tool_type)

\* C10: the first get_job_status for the job id a start_job just returned
\* reports PENDING, whatever the workers did in between.
C10_FreshStatusPending ==
    (resp.op = "status" /\ resp.fresh) => (resp.code = 200 /\ resp.status = PENDING)

\* C10 as amended: that first get_job_status reports PENDING when no worker
\* invocation has committed a write to the job before the request.
C10_FreshStatusPendingUntouched ==
    [][\A job_id \in JobIds :
          (/\ resp = StartResp(200, job_id)
           /\ job_id \notin touched
           /\ get_job_status(job_id)
           /\ resp' = get_job_status_response(job_id))
          => (resp'.code = 200 /\ resp'.status = PENDING)]_vars

\* A first get_job_status after start_job answered PENDING, no worker having
\* written to the job.
C10_Witness ==
    /\ resp.op = "status"
    /\ resp.fresh
    /\ resp.code = 200
    /\ resp.status = PENDING
    /\ touched = {}
    /\ \E w \in Workers : inv[w].pc # "idle"

\* C11: delete_job with a session token other than the job's session_id
\* answers 403 and leaves the row and the bucket as they were; delete_job for
\* an id with no row answers 404 and changes nothing.
C11_DeleteRejected ==
    [][\A job_id \in JobIds, session_id \in Sessions, s3_ok \in BOOLEAN :
          (/\ delete_job(job_id, session_id, s3_ok)
           /\ resp' = delete_job_response(job_id, session_id))
          => /\ job_id \notin DOMAIN jobs
                => (resp'.code = 404 /\ jobs' = jobs /\ blobs' = blobs)
             /\ (job_id \in DOMAIN jobs /\ jobs[job_id].session_id # session_id)
                => (resp'.code = 403 /\ jobs' = jobs /\ blobs' = blobs)]_vars

\* A delete_job was refused with 403 and the job it named still has its row
\* and its result blob.
C11_Witness ==
    /\ resp = DeleteResp(403)
    /\ \E j \in DOMAIN jobs :
          jobs[j].result_key # None /\ jobs[j].result_key \in blobs

\* C12: delete_job by the owner removes the row and answers 200 whether or
\* not the result blob could be deleted, get_job_status for the id then
\* answers 404, and no later step brings a row back under an id already drawn.
C12_OwnerDeleteRemoves ==
    [][/\ \A job_id \in DOMAIN jobs, s3_ok \in BOOLEAN :
             (/\ delete_job(job_id, jobs[job_id].session_id, s3_ok)
              /\ resp' = delete_job_response(job_id, jobs[job_id].session_id))
             => /\ resp'.code = 200
                /\ job_id \notin DOMAIN jobs'
                /\ get_job_status_response(job_id)'.code = 404
       /\ \A j \in DOMAIN jobs' \ DOMAIN jobs : j >= nextId]_vars

\* The owner deleted a COMPLETED job (its invocation is past the success
\* write) and the result blob is still in the bucket: its deletion failed.
C12_Witness ==
    /\ resp = DeleteResp(200)
    /\ \E w \in Workers :
          /\ inv[w].pc = "cleanup"
          /\ inv[w].msg.job_id \notin DOMAIN jobs
          /\ ResultKey(inv[w].msg.task, inv[w].msg.job_id) \in blobs

\* completed_at is more, respectively less, than RetentionHours before now.
FinishedBefore(j) ==
    jobs[j].completed_at # NoTime /\ jobs[j].completed_at < now - RetentionHours
FinishedAfter(j) ==
    jobs[j].completed_at # NoTime /\ jobs[j].completed_at > now - RetentionHours

\* C13: one run of cleanup_old_jobs deletes the row and the result blob of
\* every job finished more than 24 hours ago, and leaves the row and the
\* result blob of every job finished less than 24 hours ago as they were.
C13_SweepDeletesOldKeepsYoung ==
    [][\A failing \in SUBSET DOMAIN jobs :
          cleanup_old_jobs(failing) =>
             \A j \in DOMAIN jobs :
                /\ FinishedBefore(j) =>
                      /\ j \notin DOMAIN jobs'
                      /\ jobs[j].result_key # None => jobs[j].result_key \notin blobs'
                /\ FinishedAfter(j) =>
                      /\ j \in DOMAIN jobs' /\ jobs'[j] = jobs[j]
                      /\ jobs[j].result_key \in blobs => jobs[j].result_key \in blobs']_vars

\* C13 as amended: the row of every job finished more than 24 hours ago is
\* deleted, and its result blob too unless S3 fails that deletion; jobs
\* finished less than 24 hours ago keep their row and their result blob.
C13_SweepBestEffort ==
    [][\A failing \in SUBSET DOMAIN jobs :
          cleanup_old_jobs(failing) =>
             \A j \in DOMAIN jobs :
                /\ FinishedBefore(j) =>
                      /\ j \notin DOMAIN jobs'
                      /\ (jobs[j].result_key # None /\ j \notin failing)
                            => jobs[j].result_key \notin blobs'
                /\ FinishedAfter(j) =>
                      /\ j \in DOMAIN jobs' /\ jobs'[j] = jobs[j]
                      /\ jobs[j].result_key \in blobs => jobs[j].result_key \in blobs']_vars

\* A sweep has removed a job and its result blob and has left a job
\* finished less than 24 hours ago with its result blob.
C13_Witness ==
    /\ \E j \in 1..(nextId - 1) :
          j \notin DOMAIN jobs /\ ResultKey("jpg_to_pdf_task", j) \notin blobs
    /\ \E j \in DOMAIN jobs :
          /\ FinishedAfter(j)
          /\ jobs[j].status = COMPLETED
          /\ jobs[j].result_key \in blobs

C15_StatusReadOnly ==
    [][(resp'.op = "status" /\ resp' # resp) =>
          /\ jobs' = jobs
          /\ blobs' = blobs
          /\ queue' = queue
          /\ sent' = sent
          /\ resp'.code \in {200, 404}
          /\ resp'.code = 404 <=> resp'.job_id \notin DOMAIN jobs]_vars

\* get_job_status answered 404 for the id of a job that has been deleted,
\* with blobs left in the bucket.
C15_Witness ==
    /\ resp.op = "status"
    /\ resp.code = 404
    /\ resp.job_id < nextId
    /\ resp.job_id \notin DOMAIN jobs
    /\ blobs # {}

\* C16: once a job's completed_at is set, no step changes its value.
C16_CompletedAtWrittenOnce ==
    [][\A j \in DOMAIN jobs \cap DOMAIN jobs' :
          jobs[j].completed_at # NoTime
             => jobs'[j].completed_at = jobs[j].completed_at]_vars

\* The keys an invocation stores its results under.
StoredKeys(m) ==
    IF m.task = "compress_image_task"
    THEN {CompressedKey(m.job_id, i - 1) : i \in 1..Len(m.file_keys)}
    ELSE {ResultKey(m.task, m.job_id)}

\* C17: an invocation one of whose upload_file calls failed never writes the
\* job as COMPLETED.  Without re-delivery a job has one invocation and its
\* result blobs leave the bucket only together with its row, so a result
\* blob absent at the success write is one that invocation failed to store.
C17_UploadFailureNeverCompleted ==
    [][\A w \in Workers :
          LET job_id == inv[w].msg.job_id IN
          (/\ StepOf(w)
           /\ inv[w].pc = "complete"
           /\ job_id \in DOMAIN jobs'
           /\ jobs'[job_id].status = COMPLETED)
          => StoredKeys(inv[w].msg) \subseteq blobs]_vars

\* C18: the steps an invocation takes to delete its input blobs after the
\* success write, and the step its except block takes when that deletion
\* raised, leave the job's status, result_key and error_message as they were.
C18_InputCleanupKeepsCompleted ==
    [][\A w \in Workers :
          LET job_id == inv[w].msg.job_id IN
          (/\ StepOf(w)
           /\ \/ inv[w].pc = "cleanup"
              \/ inv[w].pc = "fail" /\ inv[w].err = "delete_objects failed"
           /\ job_id \in DOMAIN jobs
           /\ job_id \in DOMAIN jobs')
          => /\ jobs'[job_id].status = jobs[job_id].status
             /\ jobs'[job_id].result_key = jobs[job_id].result_key
             /\ jobs'[job_id].error_message = jobs[job_id].error_message]_vars

\* C19: a worker that is running no invocation has no temp file left on its
\* disk: every invocation has removed the files it created when it returns.
C19_ScratchRemovedOnReturn ==
    \A w \in Workers : inv[w].pc = "idle" => scratch[w] = 0

\* C20: an invocation whose download of an input fails goes straight to its
\* except block without storing or deleting a blob or writing the job, and
\* the except block writes the job (if its row is still there) FAILED with
\* an error message, touches no blob and ends the invocation.
C20_FetchFailureFails ==
    [][\A w \in Workers :
          LET job_id == inv[w].msg.job_id IN
          /\ (StepOf(w) /\ inv[w].pc = "download"
                /\ inv'[w].pc \notin {"download", "process"})
             => /\ inv'[w].pc = "fail"
                /\ inv'[w].err = "Failed to download file"
                /\ blobs' = blobs
                /\ jobs' = jobs
          /\ (StepOf(w) /\ inv[w].pc = "fail"
                /\ inv[w].err = "Failed to download file")
             => /\ inv'[w].pc = "idle"
                /\ blobs' = blobs
                /\ job_id \in DOMAIN jobs
                      => /\ job_id \in DOMAIN jobs'
                         /\ jobs'[job_id].status = FAILED
                         /\ jobs'[job_id].error_message \notin {None, ""}]_vars

\* A job is FAILED with the message of a failed download, its invocation
\* has returned, its inputs are all in the bucket and no result blob is.
C20_Witness ==
    /\ \A w \in Workers : inv[w].pc = "idle"
    /\ queue = EmptyBag
    /\ redelivered = 0
    /\ \E j \in DOMAIN jobs :
          /\ jobs[j].status = FAILED
          /\ jobs[j].error_message = "Failed to download file"
          /\ jobs[j].result_key = None
          /\ Range(jobs[j].input_files) \subseteq blobs
          /\ blobs \subseteq InputKeys

\* The key the current round of an invocation at its executor step stores.
RoundKey(w) ==
    IF inv[w].msg.task = "compress_image_task"
    THEN CompressedKey(inv[w].msg.job_id, inv[w].i - 1)
    ELSE ResultKey(inv[w].msg.task, inv[w].msg.job_id)

\* C21: an executor step that does not get its result into the bucket (the
\* executor or the store failed) takes the invocation to its except block,
\* and the except block writes the job (if its row is still there) FAILED
\* with the error captured and ends the invocation.
C21_FailureEndsFailed ==
    [][\A w \in Workers :
          LET job_id == inv[w].msg.job_id IN
          /\ (StepOf(w) /\ inv[w].pc = "process" /\ RoundKey(w) \notin blobs')
             => /\ inv'[w].pc = "fail"
                /\ inv'[w].err # None
          /\ (StepOf(w) /\ inv[w].pc = "fail")
             => /\ inv'[w] = Idle
                /\ job_id \in DOMAIN jobs
                   => /\ job_id \in DOMAIN jobs'
                      /\ jobs'[job_id].status = FAILED
                      /\ jobs'[job_id].error_message = inv[w].err]_vars

StepOrder ==
    {<<"load", "setproc">>, <<"load", "idle">>,
     <<"setproc", "download">>, <<"setproc", "idle">>,
     <<"download", "download">>, <<"download", "process">>, <<"download", "fail">>,
     <<"process", "process">>, <<"process", "complete">>, <<"process", "fail">>,
     <<"complete", "cleanup">>, <<"complete", "idle">>,
     <<"cleanup", "idle">>, <<"cleanup", "fail">>,
     <<"fail", "idle">>}

\* C23: the steps of an invocation follow the order load, set PROCESSING,
\* fetch, execute and store, write COMPLETED, delete inputs; the results are
\* in the bucket when the job is written COMPLETED; a worker removes input
\* blobs only in the step after its success write; and a job that is FAILED
\* has all its input blobs.
C23_StepOrderAndInputs ==
    [][/\ \A w \in Workers :
             LET m == inv[w].msg IN
             StepOf(w)
             => /\ <<inv[w].pc, inv'[w].pc>> \in StepOrder
                /\ (/\ inv[w].pc = "complete"
                    /\ m.job_id \in DOMAIN jobs'
                    /\ jobs'[m.job_id].status = COMPLETED)
                   => StoredKeys(m) \subseteq blobs
                /\ Range(m.file_keys) \cap (blobs \ blobs') # {}
                   => inv[w].pc = "cleanup"
       /\ \A j \in DOMAIN jobs' :
             jobs'[j].status = FAILED => Range(jobs'[j].input_files) \subseteq blobs'
      ]_vars

\* Job j is PROCESSING and nothing is working on it: no invocation of it is
\* running and no message for it is queued.
Stuck(j) ==
    /\ j \in DOMAIN jobs
    /\ jobs[j].status = PROCESSING
    /\ \A w \in Workers : inv[w].msg.job_id # j
    /\ \A m \in BagToSet(queue) : m.job_id # j

\* C24: a job left PROCESSING with no invocation working on it is eventually
\* marked FAILED or removed.
C24_StuckJobReconciled ==
    \A j \in JobIds :
       Stuck(j) ~> (j \notin DOMAIN jobs \/ jobs[j].status # PROCESSING)

\* C25: every uploaded blob eventually is the input of a job or is gone from
\* the bucket.
C25_OrphanUploadPurged ==
    \A key \in InputKeys :
       <>(\/ key \notin blobs
          \/ \E j \in DOMAIN jobs : key \in Range(jobs[j].input_files))

ExpectedKey(job_id, tool) ==
    "results/" \o ToString(job_id) \o "/" \o
        (CASE tool = "merge" -> "merged.pdf"
           [] tool = "compress" -> "compressed_0.jpg"
           [] tool = "reduce" -> "reduced.pdf"
           [] tool = "jpg-to-pdf" -> "converted.pdf")

ResultsPrefix(job_id) == "results/" \o ToString(job_id) \o "/"

Ran(task) == work.task = task /\ work.output # NoOutput
AllValid == \A i \in 1..Len(work.input) : work.input[i].valid

\* C28: the conversion of N >= 1 valid images returns one document of N
\* pages, the i-th being the i-th input image.
C28_ConvertOnePagePerImage ==
    (Ran("jpg_to_pdf_task") /\ AllValid /\ Len(work.input) >= 1)
    => /\ work.output.ok
       /\ work.output.pages = [i \in 1..Len(work.input) |-> work.input[i].pages[1]]

\* C29: merge_pdfs on N >= 1 valid documents (with pages) returns a document
\* whose pages are the inputs' pages, in input order.
C29_MergeConcatenates ==
    (/\ Ran("merge_pdf_task") /\ AllValid /\ Len(work.input) >= 1
     /\ \A i \in 1..Len(work.input) : work.input[i].pages # <<>>)
    => /\ work.output.ok
       /\ work.output.pages = Concat(work.input)

\* The (quality, optimize) pair the specification gives for a level.
LevelPair(level) ==
    CASE level = "low" -> <<95, TRUE>>
      [] level = "medium" -> <<85, TRUE>>
      [] level = "high" -> <<70, TRUE>>

\* C30: for every accepted level the settings are low->(95, true),
\* medium->(85, true), high->(70, true), and compress_image saves every image
\* it can open with that quality and that optimize flag.
C30_LevelPairApplied ==
    /\ \A level \in CompressionLevels : get_compression_settings(level) = LevelPair(level)
    /\ (Ran("compress_image_task") /\ AllValid /\ work.level \in CompressionLevels)
       => /\ work.output.ok
          /\ work.output.save.quality_passed
          /\ work.output.save.quality = LevelPair(work.level)[1]
          /\ work.output.save.optimize = LevelPair(work.level)[2]

\* C30 as amended: the settings are as stated; compress_image saves an image
\* that is not a PNG with that quality and optimize on, and a PNG with the
\* optimize flag of the pair and no quality.
C30_LevelPairAppliedByFormat ==
    /\ \A level \in CompressionLevels : get_compression_settings(level) = LevelPair(level)
    /\ (Ran("compress_image_task") /\ AllValid /\ work.level \in CompressionLevels)
       => /\ work.output.ok
          /\ work.output.save.optimize = LevelPair(work.level)[2]
          /\ IF work.input[1].format = "PNG"
             THEN ~work.output.save.quality_passed
             ELSE /\ work.output.save.quality_passed
                  /\ work.output.save.quality = LevelPair(work.level)[1]

\* compress_image has saved a JPEG at level high with quality 70.
C30_Witness ==
    /\ Ran("compress_image_task")
    /\ work.level = "high"
    /\ work.input[1].format = "JPEG"
    /\ work.output.ok
    /\ work.output.save.quality = 70

\* C31: a download request is answered with a URL (200) when the job is
\* COMPLETED and has a result_key, with 400 and no URL when the job has
\* another status, and with 404 and no URL when the job is unknown or is
\* COMPLETED without result_key.
C31_DownloadUrlForCompleted ==
    [][(resp'.op = "download" /\ resp' # resp)
       => LET job_id == resp'.job_id IN
          IF job_id \notin DOMAIN jobs
          THEN resp'.code = 404 /\ resp'.url = None
          ELSE IF jobs[job_id].status # COMPLETED
          THEN resp'.code = 400 /\ resp'.url = None
          ELSE IF jobs[job_id].result_key = None
          THEN resp'.code = 404 /\ resp'.url = None
          ELSE resp'.code = 200 /\ resp'.url # None]_vars

\* C32: every job that is COMPLETED has a result_key, and the blob of that
\* key is in the bucket.
C32_CompletedResultStored ==
    \A j \in DOMAIN jobs :
       jobs[j].status = COMPLETED
       => /\ jobs[j].result_key # None
          /\ jobs[j].result_key \in blobs

\* C33: every blob under results/ is the result_key of a row of the job
\* table, unless an invocation of the job it belongs to is still running
\* (which has stored it and is yet to record it).
C33_NoOrphanResult ==
    \A key \in blobs :
       StartsWith(key, "results/")
       => \/ \E j \in DOMAIN jobs : jobs[j].result_key = key
          \/ \E w \in Workers :
                /\ inv[w].pc # "idle"
                /\ StartsWith(key, ResultsPrefix(inv[w].msg.job_id))

\* C34: a run of cleanup_old_jobs removes no row whose status is PENDING or
\* PROCESSING.
C34_SweepSparesUnfinished ==
    [][Sweep => \A j \in DOMAIN jobs \ DOMAIN jobs' :
                   jobs[j].status \notin {PENDING, PROCESSING}]_vars

\* C35: an id whose row has been deleted has no row in any later state, and
\* get_job_status answers 404 for it.
C35_DeletedStaysDeleted ==
    [][\A j \in JobIds :
          (j < nextId /\ j \notin DOMAIN jobs)
          => /\ j \notin DOMAIN jobs'
             /\ get_job_status_response(j)'.code = 404
             /\ get_job_status_response(j)'.status = None]_vars

\* The row of a job was deleted after a worker had written it; an invocation
\* delivered for it twice has one run returned, the other is about to make
\* its success write.
C35_Witness ==
    /\ jobs = <<>>
    /\ nextId = 2
    /\ touched = {1}
    /\ redelivered = 1
    /\ queue = EmptyBag
    /\ \E w, v \in Workers :
          /\ inv[w].pc = "complete"
          /\ inv[w].msg.job_id = 1
          /\ inv[v].pc = "idle"

\* A task message for job j has been enqueued.
Enqueued(j) == \E m \in BagToSet(sent) : m.job_id = j

Finished(j) == j \notin DOMAIN jobs \/ jobs[j].status \in Terminal

C37_DeleteOnlyBySubmitter ==
    [][\A j \in DOMAIN jobs \ DOMAIN jobs' : clients'.last = clients.owner[j]]_vars

====
